---- MODULE Spec2Model ----
(***************************************************************************)
(* Talking-head avatar of the event chatbot                                *)
(* (frontend/src/components/EventChatbot.tsx): the viseme timeline built   *)
(* from a text, and the playback driver that schedules mouth shapes with   *)
(* host timers against the speech-synthesis engine.                        *)
(*                                                                         *)
(* Weights are in thousandths (0.6 is 600), rates in hundredths (1.05 is   *)
(* 105), times in milliseconds.  A text is a sequence of one-character     *)
(* strings.                                                                *)
(***************************************************************************)
EXTENDS Integers, Sequences, FiniteSets, TLC

VARIABLES
    phase,              \* "init" | "mounted" | "unmounted": life of AnimatedAvatar
    hasSynth,           \* "speechSynthesis" in window
    threw,              \* some effect or cleanup of the component threw
    morphDicts,         \* morphDictsRef: per mesh, the shape names it has
    influences,         \* morphTargetInfluences of every mesh
    isSpeaking,         \* the isSpeaking state
    timers,             \* the host's pending timeouts, in creation order
    speakingTimersRef,  \* ids pushed to speakingTimersRef.current
    blinkTimerRef,      \* blinkTimerRef.current
    utts,               \* per submission, the text and emotions its closures hold
    synthQueue,         \* utterances handed to speechSynthesis.speak, not started
    synthSpeaking,      \* the utterance the engine is speaking (0: none)
    synthEnding,        \* cancelled utterances whose end event is still in flight
    fired,              \* history: the callback run by the last step
    started,            \* history: the utterance whose onstart ran last, its emotion
    tlText, tlRate, tlOut,  \* input and result of textToVisemeTimeline
    registrations,      \* rows of event_registrations of the event, in insertion order
    regPc,              \* per client, the awaited query of handleSubmit it is at
    regEmail,           \* per client, formData.user_email of its submission
    regError,           \* per client, the error state of the form
    usersRole,          \* users.role per account ("none": no row)
    adminRole,          \* admin_users.role per account ("none": no row)
    signedUp,           \* history: the accounts created by the signup action
    signupState,        \* what the last call of the signup action returned
    request,            \* the request the middleware is answering and its answer
    isOpen,             \* EventChatbot: the isOpen state
    messages,           \* EventChatbot: the messages state
    currentSpeech,      \* EventChatbot: the currentSpeech state
    loading,            \* EventChatbot: the loading state
    userInput,          \* EventChatbot: the userInput state
    chatPc,             \* the await the chatbot's handleSubmit is at
    chatLog,            \* history: per submission, its input and what it appended
    cache,              \* AvatarCache.cache: per url, its entry
    now,                \* Date.now()
    lastSetAt,          \* history: per url, Date.now() and the data of its last set
    lastOp              \* history: the last call on the cache and what it returned

vars == <<phase, hasSynth, threw, morphDicts, influences, isSpeaking, timers,
          speakingTimersRef, blinkTimerRef, utts, synthQueue, synthSpeaking,
          synthEnding, fired, started, tlText, tlRate, tlOut,
          registrations, regPc, regEmail, regError,
          usersRole, adminRole, signedUp, signupState, request,
          isOpen, messages, currentSpeech, loading, userInput, chatPc, chatLog,
          cache, now, lastSetAt, lastOp>>

driverVars == <<phase, hasSynth, threw, morphDicts, influences, isSpeaking, timers,
                speakingTimersRef, blinkTimerRef, utts, synthQueue, synthSpeaking,
                synthEnding, fired, started>>

tlVars == <<tlText, tlRate, tlOut>>

regVars == <<registrations, regPc, regEmail, regError>>

accessVars == <<usersRole, adminRole, signedUp, signupState, request>>

chatVars == <<isOpen, messages, currentSpeech, loading, userInput, chatPc, chatLog>>

cacheVars == <<cache, now, lastSetAt, lastOp>>

appVars == <<regVars, accessVars, chatVars, cacheVars>>

(***************************************************************************)
(* Bounds                                                                  *)
(***************************************************************************)
MaxLen == 3         \* longest text given to textToVisemeTimeline on its own
MaxUtter == 2       \* utterances submitted to one avatar
LongLen == 36       \* length of the long text, spoken for about as long as a blink waits
MaxClients == 3     \* browsers submitting the registration form of one event
MaxAttendees == 1   \* event.max_attendees
MaxHops == 3        \* redirects followed for one request
MaxChats == 2       \* submissions to one chatbot
MaxClock == 600001  \* Date.now() at the end of a run of the cache

Max(a, b) == IF a >= b THEN a ELSE b
Min(a, b) == IF a <= b THEN a ELSE b

(***************************************************************************)
(* Characters                                                              *)
(***************************************************************************)
Alphabet == {"a", "E", "i", "o", "u", "y", "h", "b", "B", "p", "m", "t", "d", "s",
             "7", "!", " "}

\* c.toLowerCase() as it is, without the conversion to lower case
toLowerCaseNone(c) == c

toLowerCase(c) == CASE c = "E" -> "e"
                    [] c = "B" -> "b"
                    [] OTHER -> c

\* [aeiouy] under the i flag
IsVowel(c) == toLowerCase(c) \in {"a", "e", "i", "o", "u", "y"}

\* \s
IsSpace(c) == c \in {" ", "\t", "\n"}

\* 0: whitespace, 1: [aeiouy], 2: [^aeiouy\s]
ClassOf(c) == IF IsSpace(c) THEN 0 ELSE IF IsVowel(c) THEN 1 ELSE 2

(***************************************************************************)
(* Viseme mapper                                                           *)
(***************************************************************************)
VISIME_MAP == [a |-> "mouthOpen", e |-> "mouthSmile", i |-> "mouthSmile",
               o |-> "mouthFunnel", u |-> "mouthPucker", m |-> "mouthClosed",
               p |-> "mouthPucker", b |-> "mouthPucker", t |-> "mouthTense",
               d |-> "mouthTense", s |-> "mouthNarrow", default |-> "mouthOpen"]

\* chunk.trim()
RECURSIVE TrimStart(_)
TrimStart(s) == IF s # <<>> /\ IsSpace(Head(s)) THEN TrimStart(Tail(s)) ELSE s

\* chunk.trim().charAt(0).toLowerCase(): "" when the chunk has no character
FirstChar(chunk) ==
    LET tr == TrimStart(chunk) IN IF tr = <<>> THEN "" ELSE toLowerCase(Head(tr))

pickVisemeForChunk(chunk) ==
    LET c == FirstChar(chunk)
    IN  IF c \in DOMAIN VISIME_MAP THEN VISIME_MAP[c] ELSE VISIME_MAP.default

(***************************************************************************)
(* Text segmenter: the matches of /[aeiouy]+|[^aeiouy\s]+/gi               *)
(***************************************************************************)
\* the longest prefix of s whose characters are all of class k
RECURSIVE RunLen(_, _)
RunLen(s, k) == IF s # <<>> /\ ClassOf(Head(s)) = k THEN 1 + RunLen(Tail(s), k) ELSE 0

RECURSIVE RegexChunks(_)
RegexChunks(s) ==
    IF s = <<>> THEN <<>>
    ELSE IF ClassOf(Head(s)) = 0 THEN RegexChunks(Tail(s))
    ELSE LET n == RunLen(s, ClassOf(Head(s)))
         IN  <<SubSeq(s, 1, n)>> \o RegexChunks(SubSeq(s, n + 1, Len(s)))

\* text.split(/\s+/): the pieces between maximal whitespace runs, empty ones kept
RECURSIVE SplitWhitespace(_, _)
SplitWhitespace(s, cur) ==
    IF s = <<>> THEN <<cur>>
    ELSE IF IsSpace(Head(s))
         THEN <<cur>> \o SplitWhitespace(SubSeq(s, RunLen(s, 0) + 1, Len(s)), <<>>)
         ELSE SplitWhitespace(Tail(s), Append(cur, Head(s)))

Chunks(text) ==
    IF RegexChunks(text) # <<>> THEN RegexChunks(text) ELSE SplitWhitespace(text, <<>>)

(***************************************************************************)
(* Timeline builder                                                        *)
(***************************************************************************)
baseMsPerChar == 80
MinDur == 40
MinEst == 200

RECURSIVE SumLen(_)
SumLen(chunks) == IF chunks = <<>> THEN 0 ELSE Len(Head(chunks)) + SumLen(Tail(chunks))

\* chunks.reduce(...) || 1
TotalChars(chunks) == IF SumLen(chunks) = 0 THEN 1 ELSE SumLen(chunks)

\* Math.round of num/den (den > 0, num >= 0): halves round up
Round(num, den) == (2 * num + den) \div (2 * den)

\* the duration of a chunk from the chunk characters in place of text.length
ChunkDurOfChunkChars(chunkLen, totalChars, textLen, rate100) ==
    LET estNum == Max(MinEst * rate100, totalChars * baseMsPerChar * 100)
    IN  Max(MinDur, Round(chunkLen * estNum, totalChars * rate100))

\* Math.max(40, Math.round((chunk.length / totalChars) * estDuration)) with
\* estDuration = Math.max(200, text.length * 80 / rate), rate = rate100 / 100
ChunkDur(chunkLen, totalChars, textLen, rate100) ==
    LET estNum == Max(MinEst * rate100, textLen * baseMsPerChar * 100)
    IN  Max(MinDur, Round(chunkLen * estNum, totalChars * rate100))

\* t = dur in place of t += dur
NextStartAssign(t, dur) == dur

NextStart(t, dur) == t + dur

\* chunks.map((chunk) => {...}): the entries made so far and the running t
RECURSIVE MapChunks(_, _, _, _, _, _)
MapChunks(chunks, acc, t, totalChars, textLen, rate100) ==
    IF chunks = <<>> THEN [timeline |-> acc, duration |-> t]
    ELSE LET dur == ChunkDur(Len(Head(chunks)), totalChars, textLen, rate100)
             entry == [start |-> t, duration |-> dur,
                       viseme |-> pickVisemeForChunk(Head(chunks)),
                       chunk |-> Head(chunks)]
         IN  MapChunks(Tail(chunks), Append(acc, entry), NextStart(t, dur),
                       totalChars, textLen, rate100)

textToVisemeTimeline(text, rate100) ==
    LET chunks == Chunks(text)
    IN  MapChunks(chunks, <<>>, 0, TotalChars(chunks), Len(text), rate100)

(***************************************************************************)
(* Morph targets and emotion overlay                                       *)
(***************************************************************************)
MOUTH_SHAPES == <<"mouthOpen", "jawOpen", "mouthFunnel", "mouthPucker", "mouthSmile",
                  "mouthFrown", "mouthClosed", "mouthNarrow", "mouthTense">>

MouthSet == {MOUTH_SHAPES[k] : k \in 1..Len(MOUTH_SHAPES)}

EMOTION_BASE ==
    [joy      |-> [mouthSmile |-> 600, cheekPuff |-> 200],
     sadness  |-> [mouthFrown |-> 500],
     anger    |-> [browDownLeft |-> 600, browDownRight |-> 600],
     surprise |-> [jawOpen |-> 400],
     neutral  |-> <<>>]

OverlaySet == UNION {DOMAIN EMOTION_BASE[e] : e \in DOMAIN EMOTION_BASE}

EyelidSet == {"eyeBlinkLeft", "eyeBlinkRight"}

Shapes == MouthSet \cup OverlaySet \cup EyelidSet

Meshes == {1, 2}

\* the morph dictionaries of the loaded model: the first mesh has every shape but
\* browDownRight, the second also lacks mouthOpen and eyeBlinkLeft
DictChoices ==
    { [m \in Meshes |-> IF m = 1 THEN Shapes \ {"browDownRight"}
                        ELSE Shapes \ {"browDownRight", "mouthOpen", "eyeBlinkLeft"}] }

\* EMOTION_BASE[emotion] || EMOTION_BASE.joy
OverlayDefaultJoy(emotion) ==
    IF emotion \in DOMAIN EMOTION_BASE THEN EMOTION_BASE[emotion] ELSE EMOTION_BASE.joy

\* EMOTION_BASE[emotion] || {}
Overlay(emotion) ==
    IF emotion \in DOMAIN EMOTION_BASE THEN EMOTION_BASE[emotion] ELSE <<>>

\* (EMOTION_BASE[emotion] && EMOTION_BASE[emotion][s]) || 0
BaseVal(emotion, s) ==
    IF s \in DOMAIN Overlay(emotion) THEN Overlay(emotion)[s] ELSE 0

\* setMorph writing the shape on every mesh, whatever its dictionary holds
setMorphEveryMesh(inf, dicts, name, value) ==
    [m \in Meshes |-> [inf[m] EXCEPT ![name] = value]]

setMorph(inf, dicts, name, value) ==
    [m \in Meshes |-> IF name \in dicts[m] THEN [inf[m] EXCEPT ![name] = value]
                      ELSE inf[m]]

\* applyEmotionOverlay writing nothing
applyEmotionOverlayNone(inf, dicts, emotion) == inf

applyEmotionOverlay(inf, dicts, emotion) ==
    [m \in Meshes |->
        [s \in Shapes |->
            IF s \in DOMAIN Overlay(emotion) /\ s \in dicts[m]
            THEN Max(inf[m][s], Overlay(emotion)[s]) ELSE inf[m][s]]]

\* [...nine shapes].forEach((s) => setMorph(s, 0))
ZeroMouth(inf, dicts) ==
    [m \in Meshes |->
        [s \in Shapes |-> IF s \in MouthSet /\ s \in dicts[m] THEN 0 ELSE inf[m][s]]]

\* the reset moving every mouth shape half way to its baseline
ResetToBaseHalfWay(inf, dicts, emotion) ==
    [m \in Meshes |->
        [s \in Shapes |-> IF s \in MouthSet /\ s \in dicts[m]
                          THEN (inf[m][s] + BaseVal(emotion, s)) \div 2
                          ELSE inf[m][s]]]

\* [...nine shapes].forEach((s) => setMorph(s, baseVal))
ResetToBase(inf, dicts, emotion) ==
    [m \in Meshes |->
        [s \in Shapes |-> IF s \in MouthSet /\ s \in dicts[m] THEN BaseVal(emotion, s)
                          ELSE inf[m][s]]]

\* the tStart callback with the overlay applied before the viseme is set
ApplyVisemeOverlayFirst(inf, dicts, emotion, viseme, intensity) ==
    LET a == ZeroMouth(inf, dicts)
        b == applyEmotionOverlay(a, dicts, emotion)
        c == setMorph(b, dicts, viseme, intensity)
    IN  IF viseme \in {"mouthOpen", "mouthFunnel"}
        THEN setMorph(c, dicts, "jawOpen", Min(600, (intensity * 9) \div 10))
        ELSE c

\* the body of the tStart callback
ApplyViseme(inf, dicts, emotion, viseme, intensity) ==
    LET a == ZeroMouth(inf, dicts)
        b == setMorph(a, dicts, viseme, intensity)
        c == applyEmotionOverlay(b, dicts, emotion)
    IN  IF viseme \in {"mouthOpen", "mouthFunnel"}
        THEN setMorph(c, dicts, "jawOpen", Min(600, (intensity * 9) \div 10))
        ELSE c

\* 0.5 + Math.random() * 0.95
IntensitiesWide == {500, 1449}

\* 0.5 + Math.random() * 0.45
Intensities == {500, 949}

\* 3000 + Math.random() * 4000
BlinkDelays == {3000, 6999}

EyelidDelay == 120
TriggerDelay == 60
WarmupDelay == 200
FinishGrace == 120

(***************************************************************************)
(* Utterances                                                              *)
(***************************************************************************)
LongText == [k \in 1..LongLen |-> IF k = 1 THEN "i" ELSE "a"]

\* the (currentMessage, emotions) values the chat hands to the avatar
Inputs ==
    { [text |-> LongText,          emotions |-> <<"joy">>],
      [text |-> <<"h", "i">>,      emotions |-> <<"sadness">>],
      [text |-> <<"o">>,           emotions |-> <<"surprise">>],
      [text |-> <<"m">>,           emotions |-> <<"anger">>],
      [text |-> <<" ", " ", " ">>, emotions |-> <<"fear">>],
      [text |-> <<>>,              emotions |-> <<>>] }

\* (emotions && emotions[0]) || "neutral"
EmotionOf(u) == IF utts[u].emotions # <<>> THEN utts[u].emotions[1] ELSE "neutral"

TextOf(u) == utts[u].text

\* the switch on emotion in speakText
RateOf(emotion) == CASE emotion = "joy" -> 105
                     [] emotion = "sadness" -> 85
                     [] emotion = "anger" -> 115
                     [] emotion = "surprise" -> 120
                     [] OTHER -> 100

PitchOf(emotion) == CASE emotion = "joy" -> 120
                      [] emotion = "sadness" -> 80
                      [] emotion = "anger" -> 90
                      [] emotion = "surprise" -> 125
                      [] OTHER -> 100

\* const { timeline, duration } = textToVisemeTimeline(text, utterance.rate)
TimelineOf(u) == textToVisemeTimeline(TextOf(u), RateOf(EmotionOf(u)))

(***************************************************************************)
(* Host timers: a timeout is [id, rem, delay]; rem is the time left.       *)
(* Timeouts due at the same instant run in creation order.                 *)
(***************************************************************************)
TimerId(kind, u, i) == [kind |-> kind, utt |-> u, idx |-> i]

NoTimer == TimerId("none", 0, 0)

SpeechKinds == {"apply", "release", "finish"}

\* window.setTimeout(cb, delay)
setTimeout(ts, id, delay) == Append(ts, [id |-> id, rem |-> delay, delay |-> delay])

\* ids.forEach((t) => window.clearTimeout(t))
clearTimeout(ts, ids) == SelectSeq(ts, LAMBDA t : t.id \notin ids)

Pending(kind) == {k \in 1..Len(timers) : timers[k].id.kind = kind}

\* the timeout at position k is the one the host runs next
IsNext(k) ==
    /\ k \in 1..Len(timers)
    /\ timers[k].rem = 0
    /\ \A j \in 1..(k - 1) : timers[j].rem # 0

Without(ts, k) == SubSeq(ts, 1, k - 1) \o SubSeq(ts, k + 1, Len(ts))

MinRem(ts) == CHOOSE r \in {ts[k].rem : k \in 1..Len(ts)} :
                  \A k \in 1..Len(ts) : r <= ts[k].rem

(***************************************************************************)
(* The text and emotion of a submission live in the props and in the       *)
(* closures of its trigger, onstart, apply, release and finish callbacks;  *)
(* once it is neither the current props nor held by a pending timeout or a *)
(* queued utterance, nothing refers to them any more.                      *)
(***************************************************************************)
Released == [text |-> <<>>, emotions |-> <<"released">>]

Referenced(u, n, ts, queue) ==
    \/ u = n
    \/ \E k \in 1..Len(ts) : ts[k].id.utt = u
    \/ \E k \in 1..Len(queue) : queue[k] = u

\* the submission that is the current props
Current == IF phase = "mounted" THEN Len(utts) ELSE 0

\* cur: the submission that is the current props (0 once unmounted)
Collect(us, cur, ts, queue) ==
    [u \in 1..Len(us) |-> IF Referenced(u, cur, ts, queue) THEN us[u] ELSE Released]

(***************************************************************************)
(* The speech-synthesis engine.  speak() queues an utterance; the engine   *)
(* starts the head of the queue when it is silent and runs its onstart,    *)
(* and runs onend when the utterance completes.  cancel() empties the      *)
(* queue and stops the utterance being spoken; the engine then reports     *)
(* either an end event, delivered later, or an error event, for which the  *)
(* component has no handler.                                               *)
(***************************************************************************)
\* window.speechSynthesis.cancel(): the end events in flight afterwards
CancelEnding(endEvt) ==
    IF synthSpeaking # 0 /\ endEvt THEN synthEnding \cup {synthSpeaking} ELSE synthEnding

\* timeline.forEach((entry) => {...}): the tStart and tEnd of every entry
RECURSIVE ScheduleEntries(_, _, _, _)
ScheduleEntries(ts, u, tl, i) ==
    IF i > Len(tl) THEN ts
    ELSE LET a == setTimeout(ts, TimerId("apply", u, i), tl[i].start)
             b == setTimeout(a, TimerId("release", u, i), tl[i].start + tl[i].duration)
         IN  ScheduleEntries(b, u, tl, i + 1)

EntryIds(u, tl) ==
    {TimerId(k, u, i) : k \in {"apply", "release"}, i \in 1..Len(tl)}

\* setIsSpeaking(v): React drops a state update of an unmounted component
setIsSpeaking(v) == IF phase = "mounted" THEN v ELSE isSpeaking

(***************************************************************************)
(* Initial state: the model is loaded, the component not yet mounted       *)
(***************************************************************************)
NoOutput == [timeline |-> <<>>, duration |-> -1]

NotStarted == [utt |-> 0, emotion |-> "neutral"]

(***************************************************************************)
(* The other components of the application, as they are constructed:       *)
(* the registration form (EventRegistrationForm.tsx handleSubmit), the     *)
(* signup action and the middleware, the chatbot's message list and the    *)
(* avatar cache (utils/avatarUtils.ts)                                     *)
(***************************************************************************)
Clients == 1..MaxClients

Emails == {"ann@x.org", "bob@x.org"}

\* useState<string | null>(null), useState(false) and the empty table
InitRegistration ==
    /\ registrations = <<>>
    /\ regPc = [c \in Clients |-> "idle"]
    /\ regEmail = [c \in Clients |-> ""]
    /\ regError = [c \in Clients |-> ""]

ExistingAccounts == {1}

NewAccounts == {2}

Accounts == ExistingAccounts \cup NewAccounts

NoRequest ==
    [user |-> 0, path |-> <<>>, hops |-> 0, status |-> "none",
     location |-> <<>>, redirectTo |-> <<>>]

NoAccounts ==
    /\ usersRole = [a \in Accounts |-> "none"]
    /\ adminRole = [a \in Accounts |-> "none"]
    /\ signedUp = {}
    /\ signupState = "none"
    /\ request = NoRequest

NoSpeech == [text |-> <<>>, emotions |-> <<>>]

\* the useState initial values of EventChatbot, embedded = false
ChatClosed ==
    /\ isOpen = FALSE
    /\ messages = <<>>
    /\ currentSpeech = NoSpeech
    /\ loading = FALSE
    /\ userInput = <<>>
    /\ chatPc = "idle"
    /\ chatLog = <<>>

Urls == {"u1", "u2"}

NoEntry == [data |-> "", timestamp |-> -1]

NoSet == [at |-> -1, data |-> ""]

NoOp == [op |-> "none", url |-> "", result |-> "", at |-> 0, before |-> [u \in Urls |-> NoEntry]]

\* new Map(): no entry
InitCache ==
    /\ cache = [u \in Urls |-> NoEntry]
    /\ now = 0
    /\ lastSetAt = [u \in Urls |-> NoSet]
    /\ lastOp = NoOp

InitApp == InitRegistration /\ NoAccounts /\ ChatClosed /\ InitCache

InitDriver ==
    /\ phase = "init"
    /\ hasSynth \in BOOLEAN
    /\ threw = FALSE
    /\ morphDicts \in DictChoices
    /\ influences = [m \in Meshes |-> [s \in Shapes |-> 0]]
    /\ isSpeaking = FALSE
    /\ timers = <<>>
    /\ speakingTimersRef = {}
    /\ blinkTimerRef = NoTimer
    /\ utts = <<>>
    /\ synthQueue = <<>>
    /\ synthSpeaking = 0
    /\ synthEnding = {}
    /\ fired = NoTimer
    /\ started = NotStarted

Init ==
    /\ InitDriver
    /\ tlText = <<>>
    /\ tlRate = 100
    /\ tlOut = NoOutput
    /\ InitApp

(***************************************************************************)
(* Blink                                                                   *)
(***************************************************************************)
\* loop() without its timeout: the blink loop stops
loopNever(ts, delay) == ts

\* loop(): blinkTimerRef.current = window.setTimeout(..., delay)
loop(ts, delay) == setTimeout(ts, TimerId("blink", 0, 0), delay)

\* doBlink writing a mouth shape instead of the left eyelid
doBlinkMouth(inf, dicts) ==
    setMorph(setMorph(inf, dicts, "mouthClosed", 1000), dicts, "eyeBlinkRight", 1000)

doBlink(inf, dicts) ==
    setMorph(setMorph(inf, dicts, "eyeBlinkLeft", 1000), dicts, "eyeBlinkRight", 1000)

(***************************************************************************)
(* Component life cycle                                                    *)
(***************************************************************************)
\* the mount effects in order: voice warm-up, morph collection, blink loop,
\* speak trigger (currentMessage still undefined)
Mount(voicesEmpty, delay) ==
    /\ phase = "init"
    /\ phase' = "mounted"
    /\ threw' = ~hasSynth
    /\ LET w == IF hasSynth /\ voicesEmpty
                THEN setTimeout(timers, TimerId("warmup", 0, 0), WarmupDelay)
                ELSE timers
       IN  timers' = loop(w, delay)
    /\ blinkTimerRef' = TimerId("blink", 0, 0)
    /\ fired' = NoTimer
    /\ UNCHANGED <<hasSynth, morphDicts, influences, isSpeaking, speakingTimersRef,
                   utts, synthQueue, synthSpeaking, synthEnding, started, tlVars, appVars>>

\* the id the speak-trigger effect's cleanup clears: the t of its last run
LastTrigger ==
    IF utts # <<>> /\ utts[Len(utts)].text # <<>>
    THEN {TimerId("trigger", Len(utts), 0)} ELSE {}

\* the speak-trigger effect without its return on an empty currentMessage
SubmitEmptyToo(inp) ==
    /\ phase = "mounted"
    /\ ~threw
    /\ Len(utts) < MaxUtter
    /\ LET u == Len(utts) + 1
           cleaned == clearTimeout(timers, LastTrigger)
       IN  /\ timers' = setTimeout(cleaned, TimerId("trigger", u, 0), TriggerDelay)
           /\ speakingTimersRef' = speakingTimersRef \cup {TimerId("trigger", u, 0)}
    /\ utts' = Collect(Append(utts, inp), Len(utts) + 1, timers', synthQueue)
    /\ fired' = NoTimer
    /\ UNCHANGED <<phase, hasSynth, threw, morphDicts, influences, isSpeaking,
                   blinkTimerRef, synthQueue, synthSpeaking, synthEnding, started,
                   tlVars, appVars>>

\* new currentMessage/emotions props: cleanup of the previous run of the
\* speak-trigger effect, then the effect itself
Submit(inp) ==
    /\ phase = "mounted"
    /\ ~threw
    /\ Len(utts) < MaxUtter
    /\ LET u == Len(utts) + 1
           cleaned == clearTimeout(timers, LastTrigger)
       IN  IF inp.text = <<>>
           THEN /\ timers' = cleaned
                /\ UNCHANGED speakingTimersRef
           ELSE /\ timers' = setTimeout(cleaned, TimerId("trigger", u, 0), TriggerDelay)
                /\ speakingTimersRef' = speakingTimersRef \cup {TimerId("trigger", u, 0)}
    /\ utts' = Collect(Append(utts, inp), Len(utts) + 1, timers', synthQueue)
    /\ fired' = NoTimer
    /\ UNCHANGED <<phase, hasSynth, threw, morphDicts, influences, isSpeaking,
                   blinkTimerRef, synthQueue, synthSpeaking, synthEnding, started,
                   tlVars, appVars>>

\* unmount: the cleanups of the warm-up, blink-loop and speak-trigger effects,
\* then the teardown effect's cleanup
Teardown(endEvt) ==
    /\ phase = "mounted"
    /\ endEvt => synthSpeaking # 0
    /\ phase' = "unmounted"
    /\ LET ids == (IF hasSynth THEN {TimerId("warmup", 0, 0)} ELSE {})
                  \cup (IF blinkTimerRef # NoTimer THEN {blinkTimerRef} ELSE {})
                  \cup LastTrigger
                  \cup speakingTimersRef
       IN  timers' = clearTimeout(timers, ids)
    /\ IF hasSynth
       THEN /\ synthQueue' = <<>>
            /\ synthSpeaking' = 0
            /\ synthEnding' = CancelEnding(endEvt)
            /\ UNCHANGED threw
       ELSE /\ threw' = TRUE
            /\ UNCHANGED <<synthQueue, synthSpeaking, synthEnding>>
    /\ utts' = Collect(utts, 0, timers', synthQueue')
    /\ fired' = NoTimer
    /\ UNCHANGED <<hasSynth, morphDicts, influences, isSpeaking, speakingTimersRef,
                   blinkTimerRef, started, tlVars, appVars>>

(***************************************************************************)
(* Timer callbacks                                                         *)
(***************************************************************************)
\* the retry of getVoices()
FireWarmup(k) ==
    /\ IsNext(k)
    /\ timers[k].id.kind = "warmup"
    /\ timers' = Without(timers, k)
    /\ fired' = timers[k].id
    /\ UNCHANGED <<phase, hasSynth, threw, morphDicts, influences, isSpeaking,
                   speakingTimersRef, blinkTimerRef, utts, synthQueue, synthSpeaking,
                   synthEnding, started, tlVars, appVars>>

\* the blink loop's timeout: doBlink(); loop()
FireBlink(k, delay) ==
    /\ IsNext(k)
    /\ timers[k].id.kind = "blink"
    /\ influences' = doBlink(influences, morphDicts)
    /\ timers' = loop(setTimeout(Without(timers, k), TimerId("eyelid", 0, 0),
                                  EyelidDelay),
                       delay)
    /\ blinkTimerRef' = TimerId("blink", 0, 0)
    /\ fired' = timers[k].id
    /\ UNCHANGED <<phase, hasSynth, threw, morphDicts, isSpeaking, speakingTimersRef,
                   utts, synthQueue, synthSpeaking, synthEnding, started, tlVars, appVars>>

\* the timeout inside doBlink
FireEyelid(k) ==
    /\ IsNext(k)
    /\ timers[k].id.kind = "eyelid"
    /\ influences' = setMorph(setMorph(influences, morphDicts, "eyeBlinkLeft", 0),
                              morphDicts, "eyeBlinkRight", 0)
    /\ timers' = Without(timers, k)
    /\ fired' = timers[k].id
    /\ UNCHANGED <<phase, hasSynth, threw, morphDicts, isSpeaking, speakingTimersRef,
                   blinkTimerRef, utts, synthQueue, synthSpeaking, synthEnding, started,
                   tlVars, appVars>>

\* speakText leaving the previous utterance's timeouts alone
speakTextKeepTimers(ts, ref) == ts

\* speakingTimersRef.current.forEach((t) => window.clearTimeout(t)) in speakText
speakTextClearTimers(ts, ref) == clearTimeout(ts, ref)

\* the speak-trigger timeout: speakText(currentMessage, emotion)
FireTrigger(k, endEvt) ==
    /\ IsNext(k)
    /\ timers[k].id.kind = "trigger"
    /\ endEvt => synthSpeaking # 0
    /\ IF ~hasSynth
       THEN /\ timers' = Without(timers, k)
            /\ UNCHANGED <<speakingTimersRef, synthQueue, synthSpeaking, synthEnding>>
       ELSE /\ synthEnding' = CancelEnding(endEvt)
            /\ synthSpeaking' = 0
            /\ timers' = speakTextClearTimers(Without(timers, k), speakingTimersRef)
            /\ speakingTimersRef' = {}
            /\ synthQueue' = <<timers[k].id.utt>>
    /\ utts' = Collect(utts, Current, timers', synthQueue')
    /\ fired' = timers[k].id
    /\ UNCHANGED <<phase, hasSynth, threw, morphDicts, influences, isSpeaking,
                   blinkTimerRef, started, tlVars, appVars>>

\* tStart of entry i of utterance u
FireApply(k, intensity) ==
    /\ IsNext(k)
    /\ timers[k].id.kind = "apply"
    /\ LET u == timers[k].id.utt
           entry == TimelineOf(u).timeline[timers[k].id.idx]
       IN  influences' = ApplyViseme(influences, morphDicts, EmotionOf(u),
                                     entry.viseme, intensity)
    /\ timers' = Without(timers, k)
    /\ utts' = Collect(utts, Current, timers', synthQueue)
    /\ fired' = timers[k].id
    /\ UNCHANGED <<phase, hasSynth, threw, morphDicts, isSpeaking, speakingTimersRef,
                   blinkTimerRef, synthQueue, synthSpeaking, synthEnding, started,
                   tlVars, appVars>>

\* tEnd of entry i of utterance u
FireRelease(k) ==
    /\ IsNext(k)
    /\ timers[k].id.kind = "release"
    /\ influences' = ResetToBase(influences, morphDicts, EmotionOf(timers[k].id.utt))
    /\ timers' = Without(timers, k)
    /\ utts' = Collect(utts, Current, timers', synthQueue)
    /\ fired' = timers[k].id
    /\ UNCHANGED <<phase, hasSynth, threw, morphDicts, isSpeaking, speakingTimersRef,
                   blinkTimerRef, synthQueue, synthSpeaking, synthEnding, started,
                   tlVars, appVars>>

\* finishTimer of utterance u
FireFinish(k) ==
    /\ IsNext(k)
    /\ timers[k].id.kind = "finish"
    /\ isSpeaking' = setIsSpeaking(FALSE)
    /\ influences' = ResetToBase(influences, morphDicts, EmotionOf(timers[k].id.utt))
    /\ timers' = Without(timers, k)
    /\ utts' = Collect(utts, Current, timers', synthQueue)
    /\ fired' = timers[k].id
    /\ UNCHANGED <<phase, hasSynth, threw, morphDicts, speakingTimersRef,
                   blinkTimerRef, synthQueue, synthSpeaking, synthEnding, started,
                   tlVars, appVars>>

(***************************************************************************)
(* Speech-engine events                                                    *)
(***************************************************************************)
\* the finish timeout set to the grace period alone
FinishDelayGraceOnly(duration) == FinishGrace

\* duration + 120
FinishDelay(duration) == duration + FinishGrace

\* utterance.onstart
OnStart ==
    /\ synthSpeaking = 0
    /\ synthQueue # <<>>
    /\ LET u == Head(synthQueue)
           tl == TimelineOf(u)
           sched == ScheduleEntries(timers, u, tl.timeline, 1)
       IN  /\ synthSpeaking' = u
           /\ synthQueue' = Tail(synthQueue)
           /\ isSpeaking' = setIsSpeaking(TRUE)
           /\ influences' = applyEmotionOverlay(ZeroMouth(influences, morphDicts),
                                                morphDicts, EmotionOf(u))
           /\ timers' = setTimeout(sched, TimerId("finish", u, 0),
                                   FinishDelay(tl.duration))
           /\ speakingTimersRef' = speakingTimersRef \cup EntryIds(u, tl.timeline)
                                       \cup {TimerId("finish", u, 0)}
           /\ fired' = TimerId("onstart", u, 0)
           /\ started' = [utt |-> u, emotion |-> EmotionOf(u)]
    /\ utts' = Collect(utts, Current, timers', synthQueue')
    /\ UNCHANGED <<phase, hasSynth, threw, morphDicts, blinkTimerRef, synthEnding,
                   tlVars, appVars>>

\* utterance.onend
onend ==
    /\ isSpeaking' = setIsSpeaking(FALSE)
    /\ timers' = clearTimeout(timers, speakingTimersRef)
    /\ speakingTimersRef' = {}
    /\ utts' = Collect(utts, Current, timers', synthQueue)

\* the engine finishes the utterance it is speaking
OnEnd ==
    /\ synthSpeaking # 0
    /\ onend
    /\ synthSpeaking' = 0
    /\ fired' = TimerId("onend", synthSpeaking, 0)
    /\ UNCHANGED <<phase, hasSynth, threw, morphDicts, influences, blinkTimerRef,
                   synthQueue, synthEnding, started, tlVars, appVars>>

\* the end event of an utterance stopped by cancel() arrives
OnEndCancelled(u) ==
    /\ u \in synthEnding
    /\ onend
    /\ synthEnding' = synthEnding \ {u}
    /\ fired' = TimerId("onend", u, 0)
    /\ UNCHANGED <<phase, hasSynth, threw, morphDicts, influences, blinkTimerRef,
                   synthQueue, synthSpeaking, started, tlVars, appVars>>

\* time passes until the next timeout is due
Advance ==
    /\ timers # <<>>
    /\ MinRem(timers) > 0
    /\ timers' = [k \in 1..Len(timers) |->
                     [timers[k] EXCEPT !.rem = timers[k].rem - MinRem(timers)]]
    /\ fired' = NoTimer
    /\ UNCHANGED <<phase, hasSynth, threw, morphDicts, influences, isSpeaking,
                   speakingTimersRef, blinkTimerRef, utts, synthQueue, synthSpeaking,
                   synthEnding, started, tlVars, appVars>>

Next ==
    \/ \E v \in BOOLEAN, d \in BlinkDelays : Mount(v, d)
    \/ \E inp \in Inputs : Submit(inp)
    \/ \E e \in BOOLEAN : Teardown(e)
    \/ \E k \in 1..Len(timers) : FireWarmup(k)
    \/ \E k \in 1..Len(timers), d \in BlinkDelays : FireBlink(k, d)
    \/ \E k \in 1..Len(timers) : FireEyelid(k)
    \/ \E k \in 1..Len(timers), e \in BOOLEAN : FireTrigger(k, e)
    \/ \E k \in 1..Len(timers), x \in Intensities : FireApply(k, x)
    \/ \E k \in 1..Len(timers) : FireRelease(k)
    \/ \E k \in 1..Len(timers) : FireFinish(k)
    \/ OnStart
    \/ OnEnd
    \/ \E u \in synthEnding : OnEndCancelled(u)
    \/ Advance

Spec == Init /\ [][Next]_vars

(***************************************************************************)
(* The blink loop on its own: an avatar that is mounted, blinks and is     *)
(* unmounted, with no utterance submitted.  The host's event loop never    *)
(* stops: a timeout that is set and not cleared runs.                      *)
(***************************************************************************)
\* 3000 + Math.random() * 4000, more finely than BlinkDelays
BlinkWaits == {3000, 3100, 3500, 4000, 4500, 5000, 5500, 6000, 6880, 6999}

\* the host runs a timeout that is due, or time passes until the next one is
HostRuns ==
    \/ Advance
    \/ \E k \in 1..Len(timers) :
          \/ FireWarmup(k)
          \/ \E d \in BlinkWaits : FireBlink(k, d)
          \/ FireEyelid(k)

NextBlink ==
    \/ \E v \in BOOLEAN, d \in BlinkWaits : Mount(v, d)
    \/ \E e \in BOOLEAN : Teardown(e)
    \/ HostRuns

SpecBlink == Init /\ [][NextBlink]_vars /\ WF_vars(HostRuns)

(***************************************************************************)
(* textToVisemeTimeline on its own: every text over Alphabet of at most    *)
(* MaxLen characters, at every rate speakText uses                         *)
(***************************************************************************)
Rates == {RateOf(e) : e \in DOMAIN EMOTION_BASE}

TextsOfLen(n) == [1..n -> Alphabet]

InitTimeline ==
    /\ InitDriver
    /\ tlText \in UNION {TextsOfLen(n) : n \in 0..MaxLen}
    /\ tlRate \in Rates
    /\ tlOut = NoOutput
    /\ InitApp

BuildTimeline ==
    /\ tlOut = NoOutput
    /\ tlOut' = textToVisemeTimeline(tlText, tlRate)
    /\ UNCHANGED <<tlText, tlRate, driverVars, appVars>>

NextTimeline == BuildTimeline

SpecTimeline == InitTimeline /\ [][NextTimeline]_vars

(***************************************************************************)
(* The mouth-shape reset of the release and finish callbacks on its own:   *)
(* from every table whose mouth shapes weigh 0 or a viseme intensity, for  *)
(* every emotion label, the reset of a release callback and then the reset *)
(* of the finish callback                                                  *)
(***************************************************************************)
ResetWeights == {0, 949}

ResetEmotions == (DOMAIN EMOTION_BASE) \cup {"fear", "disgust"}

InitReset ==
    /\ phase = "mounted"
    /\ hasSynth = TRUE
    /\ threw = FALSE
    /\ morphDicts \in DictChoices
    /\ influences \in
          { [m \in Meshes |->
                [s \in Shapes |-> IF s \in MouthSet \cap morphDicts[m] THEN f[s] ELSE 0]]
            : f \in [MouthSet -> ResetWeights] }
    /\ isSpeaking = TRUE
    /\ timers = <<>>
    /\ speakingTimersRef = {}
    /\ blinkTimerRef = NoTimer
    /\ utts = <<>>
    /\ synthQueue = <<>>
    /\ synthSpeaking = 0
    /\ synthEnding = {}
    /\ fired = NoTimer
    /\ started \in {[utt |-> 0, emotion |-> e] : e \in ResetEmotions}
    /\ tlText = <<>>
    /\ tlRate = 100
    /\ tlOut = NoOutput
    /\ InitApp

\* the forEach of a tEnd callback
ResetOnce ==
    /\ fired = NoTimer
    /\ influences' = ResetToBase(influences, morphDicts, started.emotion)
    /\ fired' = TimerId("release", 0, 1)
    /\ UNCHANGED <<phase, hasSynth, threw, morphDicts, isSpeaking, timers,
                   speakingTimersRef, blinkTimerRef, utts, synthQueue, synthSpeaking,
                   synthEnding, started, tlVars, appVars>>

\* the forEach of the finishTimer callback, run after it
ResetTwice ==
    /\ fired.kind = "release"
    /\ influences' = ResetToBase(influences, morphDicts, started.emotion)
    /\ isSpeaking' = FALSE
    /\ fired' = TimerId("finish", 0, 0)
    /\ UNCHANGED <<phase, hasSynth, threw, morphDicts, timers, speakingTimersRef,
                   blinkTimerRef, utts, synthQueue, synthSpeaking, synthEnding,
                   started, tlVars, appVars>>

NextReset == ResetOnce \/ ResetTwice

SpecReset == InitReset /\ [][NextReset]_vars

(***************************************************************************)
(* The components below run without the avatar: it stays as constructed    *)
(***************************************************************************)
AvatarUnused ==
    /\ InitDriver
    /\ hasSynth
    /\ morphDicts = CHOOSE d \in DictChoices : TRUE
    /\ tlText = <<>>
    /\ tlRate = 100
    /\ tlOut = NoOutput

(***************************************************************************)
(* Registration form: handleSubmit of EventRegistrationForm.tsx.  Each     *)
(* action is one awaited query, evaluated by the database in one step,     *)
(* and the code that runs on its result; browsers interleave between the   *)
(* queries.  The table is the hosted one: the repository declares no       *)
(* constraint on it, and an inserted row takes the default status.         *)
(***************************************************************************)
\* .eq('event_id', event.id).eq('user_email', formData.user_email)
Matching(rows, e) == {i \in 1..Len(rows) : rows[i].email = e}

\* .single(): the row when exactly one row matches, null (0) otherwise
single(rows, e) ==
    IF Cardinality(Matching(rows, e)) = 1 THEN CHOOSE i \in Matching(rows, e) : TRUE ELSE 0

\* .eq('event_id', event.id).eq('status', 'registered')
Registered(rows) == {i \in 1..Len(rows) : rows[i].status = "registered"}

\* registrations.length >= event.max_attendees
IsFull(rows) == Cardinality(Registered(rows)) >= MaxAttendees

\* .insert([{ event_id: event.id, ...formData }])
InsertRow(rows, e) == Append(rows, [email |-> e, status |-> "registered"])

\* submit, the query for an existing registration and the test on its result;
\* a failed query leaves existing null
CheckExisting(c, e, ok) ==
    /\ regPc[c] = "idle"
    /\ regEmail' = [regEmail EXCEPT ![c] = e]
    /\ IF ok /\ single(registrations, e) # 0
          THEN /\ regError' = [regError EXCEPT ![c] = "You have already registered for this event."]
               /\ regPc' = regPc
          ELSE /\ regError' = [regError EXCEPT ![c] = ""]
               /\ regPc' = [regPc EXCEPT ![c] = "capacity"]
    /\ UNCHANGED <<registrations, driverVars, tlVars, accessVars, chatVars, cacheVars>>

\* the query for the registered rows and the capacity test; a failed query
\* leaves registrations null and the test false
CheckCapacity(c, ok) ==
    /\ regPc[c] = "capacity"
    /\ IF ok /\ IsFull(registrations)
          THEN /\ regError' = [regError EXCEPT ![c] = "This event is fully booked."]
               /\ regPc' = [regPc EXCEPT ![c] = "idle"]
          ELSE /\ regError' = regError
               /\ regPc' = [regPc EXCEPT ![c] = "insert"]
    /\ UNCHANGED <<registrations, regEmail, driverVars, tlVars, accessVars, chatVars,
                   cacheVars>>

\* the insert, then setRegistered(true) or the catch block
Insert(c, ok) ==
    /\ regPc[c] = "insert"
    /\ IF ok
          THEN /\ registrations' = InsertRow(registrations, regEmail[c])
               /\ regPc' = [regPc EXCEPT ![c] = "registered"]
               /\ regError' = regError
          ELSE /\ registrations' = registrations
               /\ regPc' = [regPc EXCEPT ![c] = "idle"]
               /\ regError' = [regError EXCEPT ![c] = "Registration failed. Please try again."]
    /\ UNCHANGED <<regEmail, driverVars, tlVars, accessVars, chatVars, cacheVars>>

InitRegistrationForm == AvatarUnused /\ InitApp

NextRegistration ==
    \E c \in Clients :
        \/ \E e \in Emails, ok \in BOOLEAN : CheckExisting(c, e, ok)
        \/ \E ok \in BOOLEAN : CheckCapacity(c, ok)
        \/ \E ok \in BOOLEAN : Insert(c, ok)

SpecRegistration == InitRegistrationForm /\ [][NextRegistration]_vars

(***************************************************************************)
(* Signup action (app/actions/auth.ts, in EventRegistrationForm.tsx) and   *)
(* the middleware (middleware.ts, in README.md).  A path is a sequence of  *)
(* one-character strings.  A request carries the authenticated user of its *)
(* cookies (0: none), which stays the same while redirects are followed.   *)
(***************************************************************************)
PathRoot == <<"/">>

PathLogin == <<"/", "l", "o", "g", "i", "n">>

PathSignup == <<"/", "s", "i", "g", "n", "u", "p">>

PathDashboard == <<"/", "d", "a", "s", "h", "b", "o", "a", "r", "d">>

PathAdmin == <<"/", "a", "d", "m", "i", "n">>

PathEvents == <<"/", "e", "v", "e", "n", "t", "s">>

\* the paths asked for: "/", "/login", "/login/x", "/signup", "/dashboard",
\* "/dashboard/x", "/admin", "/admin/x", "/admins", "/adm", "/events"
Paths ==
    {PathRoot, PathLogin, PathLogin \o <<"/", "x">>, PathSignup, PathDashboard,
     PathDashboard \o <<"/", "x">>, PathAdmin, PathAdmin \o <<"/", "x">>,
     PathAdmin \o <<"s">>, <<"/", "a", "d", "m">>, PathEvents}

\* pathname.startsWith(prefix)
startsWith(pathname, prefix) ==
    /\ Len(pathname) >= Len(prefix)
    /\ SubSeq(pathname, 1, Len(prefix)) = prefix

isAuthRoute(pathname) == startsWith(pathname, PathLogin) \/ startsWith(pathname, PathSignup)

isDashboardRoute(pathname) == startsWith(pathname, PathDashboard)

isAdminRoute(pathname) == startsWith(pathname, PathAdmin)

\* userProfile?.role === 'admin' || adminProfile?.role === 'admin' ||
\* adminProfile?.role === 'super_admin'; a missing row is the role "none"
hasAdminRole(userProfile, adminProfile) ==
    userProfile = "admin" \/ adminProfile = "admin" \/ adminProfile = "super_admin"

\* NextResponse.redirect(new URL(to, request.url)), redirectTo in its search
Redirect(to, redirectTo) == [status |-> "redirected", location |-> to, redirectTo |-> redirectTo]

\* return supabaseResponse
Served == [status |-> "served", location |-> <<>>, redirectTo |-> <<>>]

\* the middleware without its admin-role check
middlewareNoRoleCheck(user, pathname, userProfile, adminProfile) ==
    IF isAuthRoute(pathname) /\ user # 0
        THEN Redirect(PathDashboard, <<>>)
    ELSE IF (isDashboardRoute(pathname) \/ isAdminRoute(pathname)) /\ user = 0
        THEN Redirect(PathLogin, pathname)
    ELSE Served

\* middleware(request), from the user of the request, its pathname and the
\* rows the two role queries returned
middleware(user, pathname, userProfile, adminProfile) ==
    IF isAuthRoute(pathname) /\ user # 0
        THEN Redirect(PathDashboard, <<>>)
    ELSE IF (isDashboardRoute(pathname) \/ isAdminRoute(pathname)) /\ user = 0
        THEN Redirect(PathLogin, pathname)
    ELSE IF isAdminRoute(pathname) /\ user # 0 /\ ~hasAdminRole(userProfile, adminProfile)
        THEN Redirect(PathDashboard, <<>>)
    ELSE Served

\* a browser asks for a path, with the session of an account or with none
Receive(u, p) ==
    /\ request.status \in {"none", "served"}
    /\ u \in {0} \cup ExistingAccounts \cup signedUp
    /\ request' = [user |-> u, path |-> p, hops |-> 0, status |-> "received",
                   location |-> <<>>, redirectTo |-> <<>>]
    /\ UNCHANGED <<usersRole, adminRole, signedUp, signupState, driverVars, tlVars,
                   regVars, chatVars, cacheVars>>

\* the middleware answers; a role query that fails returns no row
Middleware(ok1, ok2) ==
    /\ request.status = "received"
    /\ LET userProfile == IF ok1 /\ request.user # 0 THEN usersRole[request.user] ELSE "none"
           adminProfile == IF ok2 /\ request.user # 0 THEN adminRole[request.user] ELSE "none"
           answer == middleware(request.user, request.path, userProfile, adminProfile)
       IN  request' = [request EXCEPT !.status = answer.status,
                                      !.location = answer.location,
                                      !.redirectTo = answer.redirectTo]
    /\ UNCHANGED <<usersRole, adminRole, signedUp, signupState, driverVars, tlVars,
                   regVars, chatVars, cacheVars>>

\* the browser follows the redirect with the same cookies
FollowRedirect ==
    /\ request.status = "redirected"
    /\ request.hops < MaxHops
    /\ request' = [user |-> request.user, path |-> request.location,
                   hops |-> request.hops + 1, status |-> "received",
                   location |-> <<>>, redirectTo |-> <<>>]
    /\ UNCHANGED <<usersRole, adminRole, signedUp, signupState, driverVars, tlVars,
                   regVars, chatVars, cacheVars>>

\* what formData.get('role') can be: a string of the form, or null
RoleInputs == {"participant", "admin", "organizer", "owner", "null"}

\* z.enum(['participant', 'admin', 'organizer']).default('participant')
signupSchema(role) ==
    IF role \in {"participant", "admin", "organizer"} THEN role
    ELSE IF role = "undefined" THEN "participant"
    ELSE "invalid"

\* signup(prevState, formData) for a new account: validation, auth.signUp and
\* the insert of the profile row
Signup(a, role, authOk, profileOk) ==
    /\ a \in NewAccounts \ signedUp
    /\ IF signupSchema(role) = "invalid"
          THEN /\ signupState' = "errors"
               /\ UNCHANGED <<usersRole, signedUp>>
       ELSE IF ~authOk
          THEN /\ signupState' = "authError"
               /\ UNCHANGED <<usersRole, signedUp>>
       ELSE IF ~profileOk
          THEN /\ signupState' = "Failed to create user profile"
               /\ signedUp' = signedUp \cup {a}
               /\ UNCHANGED usersRole
       ELSE /\ signupState' = "redirect"
            /\ signedUp' = signedUp \cup {a}
            /\ usersRole' = [usersRole EXCEPT ![a] = signupSchema(role)]
    /\ UNCHANGED <<adminRole, request, driverVars, tlVars, regVars, chatVars, cacheVars>>

UserRoles == {"none", "participant", "admin", "organizer"}

AdminRoles == {"none", "admin", "super_admin"}

\* the accounts that exist have any rows; the accounts to come have none
InitAccess ==
    /\ AvatarUnused
    /\ InitRegistration
    /\ ChatClosed
    /\ InitCache
    /\ usersRole \in {f \in [Accounts -> UserRoles] : \A a \in NewAccounts : f[a] = "none"}
    /\ adminRole \in {f \in [Accounts -> AdminRoles] : \A a \in NewAccounts : f[a] = "none"}
    /\ signedUp = {}
    /\ signupState = "none"
    /\ request = NoRequest

NextAccess ==
    \/ \E u \in {0} \cup Accounts, p \in Paths : Receive(u, p)
    \/ \E ok1, ok2 \in BOOLEAN : Middleware(ok1, ok2)
    \/ FollowRedirect
    \/ \E a \in NewAccounts, role \in RoleInputs, authOk, profileOk \in BOOLEAN :
          Signup(a, role, authOk, profileOk)

SpecAccess == InitAccess /\ [][NextAccess]_vars

(***************************************************************************)
(* Chatbot: the message list and the speech of EventChatbot.  A text is a  *)
(* sequence of one-character strings; the three fixed texts of the         *)
(* component are one character each.  handleSubmit is one action per       *)
(* await: up to the chat request, up to the chat-log insert, and the rest. *)
(***************************************************************************)
WelcomeText == <<"W">>          \* "Greetings, explorer! ..."

RecalibratingText == <<"R">>    \* "My neural pathways are recalibrating. ..."

InterferenceText == <<"I">>     \* "My quantum processors are experiencing ..."

welcomeMessage == [type |-> "bot", content |-> WelcomeText, emotions |-> <<"joy">>]

\* what the user can have typed
ChatInputs == {<<>>, <<" ">>, <<"h">>, <<" ", "h", " ">>}

RECURSIVE TrimEnd(_)
TrimEnd(s) ==
    IF s # <<>> /\ IsSpace(s[Len(s)]) THEN TrimEnd(SubSeq(s, 1, Len(s) - 1)) ELSE s

\* userInput.trim()
trim(s) == TrimEnd(TrimStart(s))

\* the bodies /api/chat can answer with: error and generated_text present
\* or empty, emotions absent, empty or given
Payloads ==
    {[error |-> e, generated_text |-> t, hasEmotions |-> h, emotions |-> m] :
        e \in {<<>>, <<"e">>}, t \in {<<>>, <<"g">>}, h \in BOOLEAN,
        m \in {<<>>, <<"joy">>}}

\* data.error || data.generated_text || "My neural pathways ..."
\* data.emotions || ["neutral"]
botMessage(data) ==
    [type |-> "bot",
     content |-> IF data.error # <<>> THEN data.error
                 ELSE IF data.generated_text # <<>> THEN data.generated_text
                 ELSE RecalibratingText,
     emotions |-> IF data.hasEmotions THEN data.emotions ELSE <<"neutral">>]

errorMessage == [type |-> "bot", content |-> InterferenceText, emotions |-> <<"sadness">>]

\* setCurrentSpeech({ text: m.content, emotions: m.emotions || [] })
SpeechOf(m) == [text |-> m.content, emotions |-> m.emotions]

\* toggleChat on the closed chat, and the effect on [event, isOpen]
OpenChat ==
    /\ ~isOpen
    /\ isOpen' = TRUE
    /\ messages' = <<welcomeMessage>>
    /\ currentSpeech' = SpeechOf(welcomeMessage)
    /\ UNCHANGED <<loading, userInput, chatPc, chatLog, driverVars, tlVars, regVars,
                   accessVars, cacheVars>>

\* the close button of the modal: setIsOpen(false)
CloseChat ==
    /\ isOpen
    /\ isOpen' = FALSE
    /\ UNCHANGED <<messages, currentSpeech, loading, userInput, chatPc, chatLog,
                   driverVars, tlVars, regVars, accessVars, cacheVars>>

\* onChange of the input, which is disabled while loading
TypeInput(s) ==
    /\ isOpen
    /\ ~loading
    /\ userInput # s
    /\ userInput' = s
    /\ UNCHANGED <<isOpen, messages, currentSpeech, loading, chatPc, chatLog,
                   driverVars, tlVars, regVars, accessVars, cacheVars>>

\* handleSubmit up to the await of fetch
SubmitChat ==
    /\ isOpen
    /\ chatPc = "idle"
    /\ Len(chatLog) < MaxChats
    /\ chatLog' = Append(chatLog, userInput)
    /\ IF trim(userInput) = <<>>
          THEN UNCHANGED <<messages, loading, chatPc>>
          ELSE /\ messages' = Append(messages, [type |-> "user", content |-> userInput,
                                                emotions |-> <<>>])
               /\ loading' = TRUE
               /\ chatPc' = "fetch"
    /\ UNCHANGED <<isOpen, currentSpeech, userInput, driverVars, tlVars, regVars,
                   accessVars, cacheVars>>

\* fetch and res.json() gave a body: the bot message, up to the await of the insert
ChatAnswered(data) ==
    /\ chatPc = "fetch"
    /\ messages' = Append(messages, botMessage(data))
    /\ currentSpeech' = SpeechOf(botMessage(data))
    /\ chatPc' = "insert"
    /\ UNCHANGED <<isOpen, loading, userInput, chatLog, driverVars, tlVars, regVars,
                   accessVars, cacheVars>>

\* fetch rejected or res.json() threw: the catch block and the end of handleSubmit
ChatFailed ==
    /\ chatPc = "fetch"
    /\ messages' = Append(messages, errorMessage)
    /\ currentSpeech' = SpeechOf(errorMessage)
    /\ userInput' = <<>>
    /\ loading' = FALSE
    /\ chatPc' = "idle"
    /\ UNCHANGED <<isOpen, chatLog, driverVars, tlVars, regVars, accessVars, cacheVars>>

\* a chat-log insert whose failure is thrown into the catch block
ChatLoggedThrowing(ok) ==
    /\ chatPc = "insert"
    /\ IF ok
          THEN UNCHANGED <<messages, currentSpeech>>
          ELSE /\ messages' = Append(messages, errorMessage)
               /\ currentSpeech' = SpeechOf(errorMessage)
    /\ userInput' = <<>>
    /\ loading' = FALSE
    /\ chatPc' = "idle"
    /\ UNCHANGED <<isOpen, chatLog, driverVars, tlVars, regVars, accessVars, cacheVars>>

\* the insert into event_chats resolved, with or without an error in its
\* result, which is not read: the end of handleSubmit
ChatLogged(ok) ==
    /\ chatPc = "insert"
    /\ userInput' = <<>>
    /\ loading' = FALSE
    /\ chatPc' = "idle"
    /\ UNCHANGED <<isOpen, messages, currentSpeech, chatLog, driverVars, tlVars, regVars,
                   accessVars, cacheVars>>

InitChatbot == AvatarUnused /\ InitApp

NextChat ==
    \/ OpenChat
    \/ CloseChat
    \/ \E s \in ChatInputs : TypeInput(s)
    \/ SubmitChat
    \/ \E data \in Payloads : ChatAnswered(data)
    \/ ChatFailed
    \/ \E ok \in BOOLEAN : ChatLogged(ok)

SpecChat == InitChatbot /\ [][NextChat]_vars

(***************************************************************************)
(* Avatar cache: class AvatarCache of utils/avatarUtils.ts.  An absent     *)
(* entry of the Map is NoEntry; null is the string "null".                 *)
(***************************************************************************)
CACHE_DURATION == 300000

CacheData == {"d1", "d2"}

\* the time that passes between two calls
Ticks == {150000, 300001}

\* set(url, data)
set(c, url, data, t) == [c EXCEPT ![url] = [data |-> data, timestamp |-> t]]

\* get(url) that leaves an expired entry in the map
getKeeping(c, url, t) ==
    IF c[url] = NoEntry THEN [cache |-> c, result |-> "null"]
    ELSE IF t - c[url].timestamp > CACHE_DURATION
        THEN [cache |-> c, result |-> "null"]
    ELSE [cache |-> c, result |-> c[url].data]

\* get(url): the map it leaves and what it returns
get(c, url, t) ==
    IF c[url] = NoEntry THEN [cache |-> c, result |-> "null"]
    ELSE IF t - c[url].timestamp > CACHE_DURATION
        THEN [cache |-> [c EXCEPT ![url] = NoEntry], result |-> "null"]
    ELSE [cache |-> c, result |-> c[url].data]

\* clear()
clear(c) == [u \in Urls |-> NoEntry]

\* size()
size(c) == Cardinality({u \in Urls : c[u] # NoEntry})

CacheSet(url, data) ==
    /\ cache' = set(cache, url, data, now)
    /\ lastSetAt' = [lastSetAt EXCEPT ![url] = [at |-> now, data |-> data]]
    /\ lastOp' = [op |-> "set", url |-> url, result |-> "", at |-> now, before |-> cache]
    /\ UNCHANGED <<now, driverVars, tlVars, regVars, accessVars, chatVars>>

CacheGet(url) ==
    /\ cache' = get(cache, url, now).cache
    /\ lastOp' = [op |-> "get", url |-> url, result |-> get(cache, url, now).result,
                  at |-> now, before |-> cache]
    /\ UNCHANGED <<now, lastSetAt, driverVars, tlVars, regVars, accessVars, chatVars>>

CacheClear ==
    /\ cache' = clear(cache)
    /\ lastOp' = [op |-> "clear", url |-> "", result |-> "", at |-> now, before |-> cache]
    /\ UNCHANGED <<now, lastSetAt, driverVars, tlVars, regVars, accessVars, chatVars>>

\* time passes
Tick(d) ==
    /\ now + d <= MaxClock
    /\ now' = now + d
    /\ UNCHANGED <<cache, lastSetAt, lastOp, driverVars, tlVars, regVars, accessVars,
                   chatVars>>

InitAvatarCache == AvatarUnused /\ InitApp

NextCache ==
    \/ \E url \in Urls, data \in CacheData : CacheSet(url, data)
    \/ \E url \in Urls : CacheGet(url)
    \/ CacheClear
    \/ \E d \in Ticks : Tick(d)

SpecCache == InitAvatarCache /\ [][NextCache]_vars

(***************************************************************************)
(* Properties                                                              *)
(***************************************************************************)
SpeechTimers == {k \in 1..Len(timers) : timers[k].id.kind \in SpeechKinds}

\* the utterances speakText has handed to the engine and that it still knows
Handed == ({synthQueue[k] : k \in 1..Len(synthQueue)} \cup synthEnding
            \cup {synthSpeaking, started.utt}) \ {0}

MouthAtBase(emotion) ==
    \A m \in Meshes : \A s \in MouthSet \cap morphDicts[m] :
        influences[m][s] = BaseVal(emotion, s)

HasNonSpace(text) == \E k \in 1..Len(text) : ~IsSpace(text[k])

RECURSIVE SumDur(_)
SumDur(tl) == IF tl = <<>> THEN 0 ELSE Head(tl).duration + SumDur(Tail(tl))

\* C1: the pending apply, release and finish timeouts all belong to the utterance
\* whose onstart ran last, none is pending while a newer utterance waits in the
\* engine's queue, and the apply, release or finish callback that runs belongs
\* to the utterance started last: a superseded utterance's callbacks never run.
C1_TimersOfOneUtterance ==
    /\ \A k \in SpeechTimers : timers[k].id.utt = started.utt
    /\ synthQueue # <<>> => SpeechTimers = {}
    /\ fired.kind \in SpeechKinds => fired.utt = started.utt

\* utterance 2 animates after speakText stopped utterance 1 in mid-speech
C1_Witness ==
    /\ fired = TimerId("apply", 2, 1)
    /\ 1 \in synthEnding
    /\ started.utt = 2

\* C2: once the component is unmounted no timeout is left pending and no timer
\* callback runs.  Fails: the eyelid reset of doBlink survives the teardown.
C2_TeardownCancelsEveryTimer ==
    phase = "unmounted" =>
        /\ timers = <<>>
        /\ fired.kind \notin {"warmup", "trigger", "apply", "release", "finish",
                              "blink", "eyelid"}

\* C3: when the utterance started last ends, by its finish timeout or by its
\* onend, every mouth shape holds the baseline of its emotion.  Fails: onend
\* resets no shape.
C3_MouthAtBaselineWhenEnded ==
    (fired.kind \in {"finish", "onend"} /\ fired.utt = started.utt)
        => MouthAtBase(started.emotion)

\* C4 as stated: once a newer non-empty utterance has been submitted, no apply,
\* release or finish callback of an older utterance runs.
C4_NoCallbackAfterSubmit ==
    (/\ fired.kind \in SpeechKinds
     /\ phase = "mounted"
     /\ Len(utts) > fired.utt)
        => utts[Len(utts)].text = <<>>

\* C4 as amended: once speakText has run for an utterance, no apply, release or
\* finish callback of an older utterance runs or is pending, and the engine is
\* not speaking an older utterance.
C4_NoCallbackAfterSpeakText ==
    \A u \in Handed :
        /\ fired.kind \in SpeechKinds => fired.utt >= u
        /\ \A k \in SpeechTimers : timers[k].id.utt >= u
        /\ synthSpeaking # 0 => synthSpeaking >= u

\* speakText has just run for utterance 2 while utterance 1 was being spoken
C4_Witness ==
    /\ fired = TimerId("trigger", 2, 0)
    /\ started.utt = 1
    /\ isSpeaking
    /\ synthQueue = <<2>>
    /\ 1 \in synthEnding

\* C5: for a text with a non-whitespace character the entries start at 0, each
\* starts where the previous one ends, each lasts at least 40 ms, and the
\* returned duration is the sum of the entries' durations.
C5_ContiguousTimeline ==
    (tlOut # NoOutput /\ HasNonSpace(tlText)) =>
        LET tl == tlOut.timeline IN
        /\ tl # <<>>
        /\ tl[1].start = 0
        /\ \A i \in 1..(Len(tl) - 1) : tl[i].start + tl[i].duration = tl[i + 1].start
        /\ \A i \in 1..Len(tl) : tl[i].duration >= MinDur
        /\ tlOut.duration = SumDur(tl)

\* a timeline of three entries
C5_Witness ==
    /\ tlOut # NoOutput
    /\ HasNonSpace(tlText)
    /\ Len(tlOut.timeline) = 3

\* C6: an empty or whitespace-only text gives no entry and a duration of 0
\* Fails: the split fallback makes empty chunks of 40 ms each.
C6_BlankTextEmptyTimeline ==
    (tlOut # NoOutput /\ ~HasNonSpace(tlText)) =>
        /\ tlOut.timeline = <<>>
        /\ tlOut.duration = 0

\* C7: without a speech-synthesis facility nothing the component runs throws
\* Fails: the warm-up effect and the teardown call the engine unguarded.
C7_NoThrowWithoutSynth == ~hasSynth => ~threw

BlinkRecords == {timers[k] : k \in Pending("blink")}

\* C8: while mounted exactly one blink timeout is pending, the one blinkTimerRef
\* holds, and no step other than the blink itself and the passing of time
\* changes it.
C8_BlinkLoopUndisturbed ==
    /\ [](phase = "mounted" =>
            /\ Cardinality(Pending("blink")) = 1
            /\ \A k \in Pending("blink") : timers[k].id = blinkTimerRef)
    /\ [][(phase = "mounted" /\ phase' = "mounted" /\ fired'.kind # "blink" /\ ~Advance)
            => BlinkRecords' = BlinkRecords]_vars

\* an utterance was spoken from start to finish while a blink was waiting
C8_Witness ==
    /\ fired.kind = "finish"
    /\ phase = "mounted"
    /\ \E k \in Pending("blink") : 0 < timers[k].rem /\ timers[k].rem < timers[k].delay

Eyelids == [m \in Meshes |-> [s \in EyelidSet |-> influences[m][s]]]

MouthAndOverlay ==
    [m \in Meshes |-> [s \in MouthSet \cup OverlaySet |-> influences[m][s]]]

\* C9: the speech callbacks change no eyelid weight, the blink callbacks change no
\* mouth or overlay weight, and from the start of a sadness utterance until the
\* next utterance starts mouthFrown stays at 0.5, whatever blinks happen.
C9_DisjointShapeSets ==
    /\ [][/\ fired'.kind \in {"trigger", "onstart", "apply", "release", "finish", "onend"}
             => Eyelids' = Eyelids
          /\ fired'.kind \in {"blink", "eyelid"} => MouthAndOverlay' = MouthAndOverlay]_vars
    /\ [](started.emotion = "sadness" =>
            \A m \in Meshes : "mouthFrown" \in morphDicts[m]
                                => influences[m]["mouthFrown"] = 500)

\* a blink ended after a sadness utterance had finished
C9_Witness ==
    /\ started.emotion = "sadness"
    /\ fired.kind = "eyelid"
    /\ ~isSpeaking
    /\ SpeechTimers = {}
    /\ influences[1]["mouthFrown"] = 500

\* apply 1, release 1, apply 2, release 2, ..., finish of utterance u
RECURSIVE CanonFrom(_, _, _)
CanonFrom(u, n, i) ==
    IF i > n THEN <<TimerId("finish", u, 0)>>
    ELSE <<TimerId("apply", u, i), TimerId("release", u, i)>> \o CanonFrom(u, n, i + 1)

Canon(u) == CanonFrom(u, Len(TimelineOf(u).timeline), 1)

PendingSpeech == SelectSeq(timers, LAMBDA t : t.id.kind \in SpeechKinds)

\* C10: the pending apply, release and finish timeouts of an utterance are always
\* the tail of apply 1, release 1, apply 2, ..., finish that has not run yet, and
\* their due times do not decrease along it: they run in that order.
C10_CallbacksInOrder ==
    LET p == PendingSpeech IN
    p # <<>> =>
        LET c == Canon(p[1].id.utt) IN
        /\ Len(p) <= Len(c)
        /\ \A i \in 1..Len(p) : p[i].id = c[Len(c) - Len(p) + i]
        /\ \A i \in 1..(Len(p) - 1) : p[i].rem <= p[i + 1].rem

\* release 1 has run while apply 2, due at the same instant, is still pending
C10_Witness ==
    /\ fired.kind = "release"
    /\ fired.idx = 1
    /\ \E k \in 1..Len(timers) :
          /\ timers[k].id = TimerId("apply", fired.utt, 2)
          /\ timers[k].rem = 0

(***************************************************************************)
(* Properties of the timeline builder, the segmenter and the viseme mapper *)
(***************************************************************************)
\* r is num / den rounded to the nearest integer, halves up
IsRounded(r, num, den) == (2 * r - 1) * den <= 2 * num /\ 2 * num < (2 * r + 1) * den

RECURSIVE SumChunkChars(_)
SumChunkChars(tl) ==
    IF tl = <<>> THEN 0 ELSE Len(Head(tl).chunk) + SumChunkChars(Tail(tl))

\* C11: for a text with a non-whitespace character every entry lasts
\* max(40, round(len(chunk) / totalChunkChars * max(200, 80 * len(text) / rate)))
\* with len(text) counting whitespace; "hi" at rate 1.0 gives two entries of
\* 100 ms starting at 0 and 100 and a total of 200 ms.
C11_EntryDurations ==
    (tlOut # NoOutput /\ HasNonSpace(tlText)) =>
        LET tl == tlOut.timeline
            \* max(200, 80 * len(text) / rate) is estNum / tlRate
            estNum == IF 80 * Len(tlText) * 100 >= 200 * tlRate
                      THEN 80 * Len(tlText) * 100 ELSE 200 * tlRate
            den == SumChunkChars(tl) * tlRate
        IN  /\ \A i \in 1..Len(tl) :
                  LET num == Len(tl[i].chunk) * estNum
                  IN  \/ tl[i].duration = 40 /\ 2 * num < 81 * den
                      \/ tl[i].duration > 40 /\ IsRounded(tl[i].duration, num, den)
            /\ (tlText = <<"h", "i">> /\ tlRate = 100) =>
                  /\ Len(tl) = 2
                  /\ tl[1].start = 0 /\ tl[1].duration = 100
                  /\ tl[2].start = 100 /\ tl[2].duration = 100
                  /\ tlOut.duration = 200

\* a text whose whitespace lengthens the estimate: "h i" at rate 1.0, 120 ms each
C11_Witness ==
    /\ tlOut # NoOutput
    /\ tlText = <<"h", " ", "i">>
    /\ tlRate = 100
    /\ Len(tlOut.timeline) = 2
    /\ \A i \in 1..2 : tlOut.timeline[i].duration = 120

VowelChars == {"a", "e", "i", "o", "u", "y", "A", "E", "I", "O", "U", "Y"}

WhitespaceChars == {" ", "\t", "\n"}

\* 0: whitespace, 1: vowel, 2: anything else
CharClass(c) == IF c \in WhitespaceChars THEN 0 ELSE IF c \in VowelChars THEN 1 ELSE 2

RECURSIVE Concat(_)
Concat(seqs) == IF seqs = <<>> THEN <<>> ELSE Head(seqs) \o Concat(Tail(seqs))

\* the positions of the text at which a maximal run of one class starts
RunStarts(text) ==
    {k \in 1..Len(text) : /\ CharClass(text[k]) # 0
                          /\ (k = 1 \/ CharClass(text[k - 1]) # CharClass(text[k]))}

\* C12: for every text the chunks are the maximal vowel runs and the maximal
\* runs of other non-whitespace characters in order: none is empty or holds
\* whitespace, each is of one class, there are as many as the text has runs, and
\* together they are the text without its whitespace.  Fails for a text
\* without a non-whitespace character: the split fallback makes empty chunks.
C12_ChunksAreMaximalRuns ==
    tlOut # NoOutput =>
        LET chunks == [i \in 1..Len(tlOut.timeline) |-> tlOut.timeline[i].chunk]
        IN  /\ \A i \in 1..Len(chunks) :
                  /\ chunks[i] # <<>>
                  /\ \A k \in 1..Len(chunks[i]) :
                        /\ CharClass(chunks[i][k]) # 0
                        /\ CharClass(chunks[i][k]) = CharClass(chunks[i][1])
            /\ Len(chunks) = Cardinality(RunStarts(tlText))
            /\ Concat(chunks) = SelectSeq(tlText, LAMBDA c : CharClass(c) # 0)

CasePairs == {{"a", "A"}, {"e", "E"}, {"i", "I"}, {"o", "O"}, {"u", "U"}, {"p", "P"},
              {"b", "B"}, {"m", "M"}, {"t", "T"}, {"d", "D"}, {"s", "S"}}

\* the table of the viseme mapper, by the first character in either case
ExpectedViseme(c) ==
    CASE c \in {"a", "A"} -> "mouthOpen"
      [] c \in {"e", "E", "i", "I"} -> "mouthSmile"
      [] c \in {"o", "O"} -> "mouthFunnel"
      [] c \in {"u", "U", "p", "P", "b", "B"} -> "mouthPucker"
      [] c \in {"m", "M"} -> "mouthClosed"
      [] c \in {"t", "T", "d", "D"} -> "mouthTense"
      [] c \in {"s", "S"} -> "mouthNarrow"
      [] OTHER -> "mouthOpen"

\* C13: the viseme of every chunk is the one the table gives for its first
\* character in either case, mouthOpen for every character not in the table,
\* and two chunks whose first characters differ only in case have the same
\* viseme.
C13_VisemeOfFirstCharacter ==
    tlOut # NoOutput =>
        LET tl == tlOut.timeline
            HasChar == {i \in 1..Len(tl) : tl[i].chunk # <<>>}
        IN  /\ \A i \in HasChar : tl[i].viseme = ExpectedViseme(tl[i].chunk[1])
            /\ \A i, j \in HasChar :
                  (\/ tl[i].chunk[1] = tl[j].chunk[1]
                   \/ {tl[i].chunk[1], tl[j].chunk[1]} \in CasePairs)
                      => tl[i].viseme = tl[j].viseme

\* "Bab": the chunks B and b get mouthPucker, a gets mouthOpen
C13_Witness ==
    /\ tlOut # NoOutput
    /\ tlText = <<"B", "a", "b">>
    /\ tlOut.timeline[1].viseme = "mouthPucker"
    /\ tlOut.timeline[2].viseme = "mouthOpen"
    /\ tlOut.timeline[3].viseme = "mouthPucker"

(***************************************************************************)
(* Properties of the morph-target writes                                   *)
(***************************************************************************)
\* C14: right after an apply callback of an utterance with emotion E, every
\* shape of E's overlay that a mesh has weighs at least E's overlay value on
\* that mesh, jawOpen under surprise included, which the callback overwrites
\* after the overlay when the viseme is mouthOpen or mouthFunnel.
C14_OverlayFloorAfterApply ==
    fired.kind = "apply" =>
        LET overlay == Overlay(EmotionOf(fired.utt))
        IN  \A m \in Meshes : \A s \in (DOMAIN overlay) \cap morphDicts[m] :
                influences[m][s] >= overlay[s]

\* surprise, viseme mouthFunnel at intensity 0.5: jawOpen overwritten with 0.45
C14_Witness ==
    /\ fired.kind = "apply"
    /\ EmotionOf(fired.utt) = "surprise"
    /\ influences[1]["mouthFunnel"] = 500
    /\ influences[1]["jawOpen"] = 450

\* C15: every weight in the morph-target table lies in [0, 1]
C15_WeightsInUnitRange ==
    \A m \in Meshes : \A s \in Shapes : 0 <= influences[m][s] /\ influences[m][s] <= 1000

\* a viseme applied at the highest intensity while the eyes are closed
C15_Witness ==
    /\ fired.kind = "apply"
    /\ influences[1]["eyeBlinkRight"] = 1000
    /\ \E s \in MouthSet : influences[1][s] = 949

\* C16: no weight of a shape that a mesh lacks is ever written, nothing throws
\* on the way, and a shape that only some meshes have is written on those:
\* after a blink both eyelids are at 1 on every mesh that has them, after the
\* start of an anger utterance browDownLeft is at 0.6 on every mesh that has it.
C16_AbsentShapeIsNoOp ==
    /\ \A m \in Meshes : \A s \in Shapes \ morphDicts[m] : influences[m][s] = 0
    /\ hasSynth => ~threw
    /\ fired.kind = "blink" =>
          \A m \in Meshes : \A s \in EyelidSet \cap morphDicts[m] : influences[m][s] = 1000
    /\ (fired.kind = "onstart" /\ started.emotion = "anger") =>
          \A m \in Meshes : \A s \in {"browDownLeft", "browDownRight"} \cap morphDicts[m] :
              influences[m][s] = 600

\* an anger utterance started during a blink: browDownRight, which no mesh has,
\* and eyeBlinkLeft, which the second mesh lacks, were set
C16_Witness ==
    /\ fired.kind = "onstart"
    /\ started.emotion = "anger"
    /\ \A m \in Meshes : "browDownRight" \notin morphDicts[m]
    /\ \A m \in Meshes : influences[m]["browDownLeft"] = 600
    /\ influences[1]["eyeBlinkLeft"] = 1000
    /\ "eyeBlinkLeft" \notin morphDicts[2]
    /\ influences[2]["eyeBlinkRight"] = 1000

\* emotion labels outside the vocabulary
UnrecognisedLabels == {"fear", "disgust"}

\* what a step of an utterance does when its emotion is neutral
NeutralStep(u) ==
    LET tl == textToVisemeTimeline(TextOf(u), 100) IN
    CASE fired'.kind = "onstart" ->
            /\ influences' = applyEmotionOverlay(ZeroMouth(influences, morphDicts),
                                                 morphDicts, "neutral")
            /\ timers' = setTimeout(ScheduleEntries(timers, u, tl.timeline, 1),
                                    TimerId("finish", u, 0), FinishDelay(tl.duration))
      [] fired'.kind = "apply" ->
            \E x \in Intensities :
                influences' = ApplyViseme(influences, morphDicts, "neutral",
                                          tl.timeline[fired'.idx].viseme, x)
      [] fired'.kind \in {"release", "finish"} ->
            influences' = ResetToBase(influences, morphDicts, "neutral")

\* C17: an emotion label that is not joy, sadness, anger or surprise gives rate
\* 1.0, pitch 1.0, an empty overlay and a baseline of 0 for every mouth shape,
\* and every onstart, apply, release and finish step of an utterance with such
\* a label writes the weights and schedules the timeouts that the same step
\* writes and schedules for a neutral utterance of the same text.
C17_UnrecognisedEmotionIsNeutral ==
    /\ [](\A e \in UnrecognisedLabels :
            /\ RateOf(e) = 100 /\ PitchOf(e) = 100
            /\ DOMAIN Overlay(e) = {}
            /\ \A s \in MouthSet : BaseVal(e, s) = 0)
    /\ [][(/\ fired'.kind \in {"onstart", "apply", "release", "finish"}
           /\ EmotionOf(fired'.utt) \in UnrecognisedLabels)
             => NeutralStep(fired'.utt)]_vars

\* a viseme of an utterance labelled fear applied at the highest intensity
C17_Witness ==
    /\ fired.kind = "apply"
    /\ EmotionOf(fired.utt) = "fear"
    /\ influences[1]["mouthOpen"] = 949
    /\ influences[1]["jawOpen"] = 600

\* C18: resetting the mouth shapes to the baseline of an emotion a second time
\* changes nothing: from every morph state two resets in a row give what one
\* gives, and the state a release or finish reset leaves is left as it is by
\* another reset for the same emotion.
C18_ResetIdempotent ==
    LET e == started.emotion
        once == ResetToBase(influences, morphDicts, e)
    IN  /\ ResetToBase(once, morphDicts, e) = once
        /\ fired.kind \in {"release", "finish"} => once = influences

\* the finish reset run after a release reset for joy, mouthSmile at its baseline
C18_Witness ==
    /\ fired.kind = "finish"
    /\ started.emotion = "joy"
    /\ influences[1]["mouthSmile"] = 600
    /\ influences[1]["jawOpen"] = 0

\* C19: an utterance submitted with the empty string never gets a timeout, is
\* never handed to the engine and never starts, and the step that submits it
\* changes no weight, no pending apply, release or finish timeout, not the
\* speaking flag and not the blink loop.
C19_EmptyTextNoMouthMovement ==
    /\ [](/\ \A k \in 1..Len(timers) :
                timers[k].id.utt # 0 => TextOf(timers[k].id.utt) # <<>>
          /\ \A k \in 1..Len(synthQueue) : TextOf(synthQueue[k]) # <<>>
          /\ (phase = "mounted" /\ utts # <<>> /\ TextOf(Len(utts)) = <<>>) =>
                /\ started.utt # Len(utts)
                /\ synthSpeaking # Len(utts)
                /\ Cardinality(Pending("blink")) = 1)
    /\ [][(Len(utts') = Len(utts) + 1 /\ utts'[Len(utts')].text = <<>>) =>
            /\ influences' = influences
            /\ PendingSpeech' = PendingSpeech
            /\ BlinkRecords' = BlinkRecords
            /\ isSpeaking' = isSpeaking
            /\ synthQueue' = synthQueue /\ synthSpeaking' = synthSpeaking]_vars

\* the empty string submitted in the middle of an utterance, the blink waiting
C19_Witness ==
    /\ phase = "mounted"
    /\ Len(utts) = 2
    /\ utts[2] = [text |-> <<>>, emotions |-> <<>>]
    /\ started.utt = 1
    /\ SpeechTimers # {}
    /\ Pending("blink") # {}

\* the weight an apply callback leaves on mouth shape s: viseme v, intensity x
AfterApply(s, v, x, emotion) ==
    IF s = v THEN Max(x, BaseVal(emotion, s))
    ELSE IF s = "jawOpen" /\ v \in {"mouthOpen", "mouthFunnel"}
         THEN Min(600, (9 * x) \div 10)
         ELSE BaseVal(emotion, s)

\* C20: right after the apply callback of an entry with viseme v there is an
\* intensity x in [0.5, 0.95] such that v weighs max(x, overlay value of v),
\* jawOpen weighs min(0.6, 0.9 x) when v is mouthOpen or mouthFunnel and its
\* overlay value or 0 otherwise, and every other mouth shape weighs its overlay
\* value or 0, on every mesh that has the shape.
C20_WeightsAfterApply ==
    fired.kind = "apply" =>
        LET v == TimelineOf(fired.utt).timeline[fired.idx].viseme
        IN  \E x \in Intensities :
                /\ 500 <= x /\ x <= 950
                /\ \A m \in Meshes : \A s \in MouthSet \cap morphDicts[m] :
                      influences[m][s] = AfterApply(s, v, x, EmotionOf(fired.utt))

\* joy, viseme mouthSmile at intensity 0.5: the overlay value 0.6 wins
C20_Witness ==
    /\ fired.kind = "apply"
    /\ EmotionOf(fired.utt) = "joy"
    /\ TimelineOf(fired.utt).timeline[fired.idx].viseme = "mouthSmile"
    /\ influences[2]["mouthSmile"] = 600
    /\ \A s \in MouthSet \ {"mouthSmile"} : influences[2][s] = 0

(***************************************************************************)
(* Properties of the blink loop and of overlapping utterances              *)
(***************************************************************************)
\* C21: a blink timeout waits between 3000 and 7000 ms; the blink leaves both
\* eyelids at 1 on every mesh that has them; while mounted the eyelids are off
\* 0 only while the one 120 ms reset timeout is pending, which is due before
\* the next blink; and while mounted a blink always comes again.
C21_BlinkRecurs ==
    /\ [](/\ \A k \in Pending("blink") :
                /\ 3000 <= timers[k].delay /\ timers[k].delay <= 7000
                /\ timers[k].rem <= timers[k].delay
          /\ fired.kind = "blink" =>
                \A m \in Meshes : \A s \in EyelidSet \cap morphDicts[m] :
                    influences[m][s] = 1000
          /\ phase = "mounted" =>
                /\ Cardinality(Pending("eyelid")) <= 1
                /\ \A e \in Pending("eyelid") :
                      /\ timers[e].delay = 120
                      /\ \A b \in Pending("blink") : timers[e].rem < timers[b].rem
                /\ Pending("eyelid") = {} =>
                      \A m \in Meshes : \A s \in EyelidSet : influences[m][s] = 0)
    /\ [](phase = "mounted" => <>(fired.kind = "blink" \/ phase = "unmounted"))

\* the eyelids are back at 0, 120 ms into the wait for the next blink
C21_Witness ==
    /\ phase = "mounted"
    /\ fired.kind = "eyelid"
    /\ \A m \in Meshes : \A s \in EyelidSet : influences[m][s] = 0
    /\ \E k \in Pending("blink") : timers[k].rem = timers[k].delay - 120

\* C22: while mounted with a speech engine, the non-empty utterance submitted
\* last either still has its speak trigger pending or has been handed to the
\* engine by speakText.  Fails: the onend of the previous utterance clears the
\* trigger, which the effect pushed to speakingTimersRef.
C22_SubmittedIsHanded ==
    (/\ phase = "mounted"
     /\ hasSynth
     /\ utts # <<>>
     /\ TextOf(Len(utts)) # <<>>)
        => \/ \E k \in Pending("trigger") : timers[k].id.utt = Len(utts)
           \/ Len(utts) \in Handed

\* C23: the onend of an utterance other than the one started last, delivered
\* while the engine speaks the one started last, leaves the pending apply,
\* release and finish timeouts and the speaking flag as they are.  Fails: onend
\* clears every id in speakingTimersRef and the flag, whichever utterance ends.
C23_LateOnEndAffectsOnlyItsUtterance ==
    [][(/\ fired'.kind = "onend"
        /\ fired'.utt # started.utt
        /\ synthSpeaking # 0
        /\ synthSpeaking = started.utt)
          => /\ PendingSpeech' = PendingSpeech
             /\ isSpeaking' = isSpeaking]_vars

\* C24: right after an utterance starts, every shape of some emotion's overlay
\* that is not in the overlay of its emotion weighs 0.  Fails: onstart zeroes
\* the nine mouth shapes only, so cheekPuff and browDownLeft keep the value of
\* an earlier overlay.
C24_NoOverlayLeak ==
    fired.kind = "onstart" =>
        \A m \in Meshes :
            \A s \in (OverlaySet \ DOMAIN Overlay(started.emotion)) \cap morphDicts[m] :
                influences[m][s] = 0

(***************************************************************************)
(* Properties of the registration form                                     *)
(***************************************************************************)
\* C25: the number of registrations of the event with status registered never
\* exceeds the event's max_attendees, however the submissions of different
\* clients interleave
C25_RegisteredWithinCapacity ==
    Cardinality(Registered(registrations)) <= MaxAttendees

\* C26: the event never holds two registrations with the same user_email
C26_OneRegistrationPerEmail ==
    \A i, j \in 1..Len(registrations) :
        i # j => registrations[i].email # registrations[j].email

(***************************************************************************)
(* Properties of the middleware and of the signup action                   *)
(***************************************************************************)
Answered == request.status \in {"served", "redirected"}

Protected(p) == startsWith(p, PathDashboard) \/ startsWith(p, PathAdmin)

MayAdminister(u) ==
    u # 0 /\ (usersRole[u] = "admin" \/ adminRole[u] \in {"admin", "super_admin"})

C28_SelfRegisteredNotAdmin ==
    (request.status = "served" /\ startsWith(request.path, PathAdmin)
        /\ request.user \in signedUp)
       => adminRole[request.user] \in {"admin", "super_admin"}

(***************************************************************************)
(* Properties of the chatbot's message list                                *)
(***************************************************************************)
Submitted == Len(chatLog') = Len(chatLog) + 1

Blank(s) == \A i \in 1..Len(s) : s[i] \in {" ", "\t", "\n"}

AppendsOne(type) ==
    /\ Len(messages') = Len(messages) + 1
    /\ SubSeq(messages', 1, Len(messages)) = messages
    /\ messages'[Len(messages')].type = type

\* C29: a submission of a blank input appends nothing and awaits nothing; a
\* submission of any other input appends one user message holding the input and
\* awaits the chat request; the end of that await, with a body or with a failure,
\* appends one bot message and makes it the current speech; the end of the
\* chat-log insert, failed or not, appends nothing and leaves the speech; and
\* nothing else appends a message
C29_OneUserThenOneBotMessage ==
    [][/\ (Submitted /\ Blank(userInput)) =>
              messages' = messages /\ chatPc' = "idle" /\ currentSpeech' = currentSpeech
       /\ (Submitted /\ ~Blank(userInput)) =>
              /\ AppendsOne("user")
              /\ messages'[Len(messages')].content = userInput
              /\ chatPc' = "fetch"
       /\ (chatPc = "fetch" /\ chatPc' # "fetch") =>
              /\ AppendsOne("bot")
              /\ currentSpeech'.text = messages'[Len(messages')].content
              /\ currentSpeech'.emotions = messages'[Len(messages')].emotions
       /\ (chatPc = "fetch" /\ chatPc' = "fetch") => messages' = messages \/ ~isOpen
       /\ (chatPc = "insert") => messages' = messages \/ ~isOpen
       /\ (chatPc = "insert" /\ chatPc' = "idle") => currentSpeech' = currentSpeech
       /\ (chatPc = "idle" /\ ~Submitted) => messages' = messages \/ ~isOpen
       /\ chatPc' # chatPc =>
              \/ chatPc = "idle" /\ Submitted
              \/ chatPc = "fetch" /\ chatPc' \in {"insert", "idle"}
              \/ chatPc = "insert" /\ chatPc' = "idle"
      ]_vars

\* a submission whose chat request gave a body and whose chat-log insert then
\* ended: the list is the welcome, the user message and the bot message, which
\* is the current speech
C29_Witness ==
    /\ chatPc = "idle"
    /\ chatLog = << <<" ", "h", " ">> >>
    /\ Len(messages) = 3
    /\ messages[2] = [type |-> "user", content |-> <<" ", "h", " ">>, emotions |-> <<>>]
    /\ messages[3] = [type |-> "bot", content |-> <<"e">>, emotions |-> <<"neutral">>]
    /\ currentSpeech = [text |-> <<"e">>, emotions |-> <<"neutral">>]
    /\ ~loading

(***************************************************************************)
(* Properties of the avatar cache                                          *)
(***************************************************************************)
FiveMinutes == 5 * 60 * 1000

\* the url of the last call was set, and more than five minutes before the call
SetLongAgo == lastSetAt[lastOp.url].at >= 0 /\ lastOp.at - lastSetAt[lastOp.url].at > FiveMinutes

\* C30: get(url) returns a value other than null only if url was set at most
\* five minutes before, and then the data of its last set; it returns null when
\* url was never set or was last set more than five minutes before; when the
\* entry it finds was set more than five minutes before it removes it, so that
\* size() is one less; it leaves the entries of the other urls as they were;
\* clear() leaves size() at 0
C30_GetWithinFiveMinutes ==
    /\ lastOp.op = "get" =>
          /\ lastOp.result # "null" =>
                /\ lastSetAt[lastOp.url].at >= 0
                /\ lastOp.at - lastSetAt[lastOp.url].at <= FiveMinutes
                /\ lastOp.result = lastSetAt[lastOp.url].data
          /\ (lastSetAt[lastOp.url].at < 0 \/ SetLongAgo) => lastOp.result = "null"
          /\ (lastOp.before[lastOp.url] # NoEntry /\ SetLongAgo) =>
                /\ cache[lastOp.url] = NoEntry
                /\ size(cache) = size(lastOp.before) - 1
          /\ \A u \in Urls \ {lastOp.url} : cache[u] = lastOp.before[u]
    /\ lastOp.op = "clear" => size(cache) = 0

\* a get found an entry older than five minutes and removed it, while the entry
\* of the other url stayed
C30_Witness ==
    /\ lastOp.op = "get"
    /\ lastOp.before[lastOp.url] # NoEntry
    /\ lastOp.at - lastSetAt[lastOp.url].at = 300001
    /\ lastOp.result = "null"
    /\ size(lastOp.before) = 2
    /\ size(cache) = 1

====
